---- MODULE Spec2Model ----
(***************************************************************************)
(* Model of src/src/hack/v4l2-test.cpp: two V4L2 capture sessions          *)
(* (class subdevice) driven by main().  The program is single-threaded; a  *)
(* step of the model is one system call of the program together with the   *)
(* branch the code takes on its result.  The program sees the capture      *)
(* device only through the results of its system calls: a buffer queued to *)
(* the device is one the device may be filling or may have filled, and the *)
(* device shows that it has filled one by handing it out in VIDIOC_DQBUF.  *)
(***************************************************************************)
EXTENDS Integers, Sequences, FiniteSets, TLC

(***************************************************************************)
(* Bounds of the model.                                                    *)
(***************************************************************************)
\* largest buffer count VIDIOC_REQBUFS may grant (the driver adjusts req.count)
MaxGrant == 4
\* largest number of EINTR interruptions of select counted within one poll
MaxIntr == 2
\* largest number of EAGAIN results of VIDIOC_DQBUF counted within one poll
MaxAgain == 1
\* largest number of failing teardown calls (warnings written) in one run
MaxWarn == 2
\* largest buffer length (in abstract bytes) VIDIOC_QUERYBUF reports
MaxBufLen == 2
\* the pixels of one depth and intensity frame; stands for the 320*240 of
\* lines 240 and 256, scaled down so that frame contents can be enumerated
FramePixels == 2
\* the bytes of the array yuy2; stands for the 640*480*2 of line 241
Yuy2Bytes == 4

(***************************************************************************)
(* Program constants.                                                      *)
(***************************************************************************)
\* req.count = 4
ReqCount == 4
\* if(req.count < 2)
MinBuffers == 2
\* tv.tv_sec = 2
TimeoutSec == 2

\* dev0 is "/dev/video0" (force_format = true), dev1 is "/dev/video1"
Dev == {0, 1}
force_format(d) == d = 0

(***************************************************************************)
(* unsigned int (32 bit) values as <<high 16 bits, low 16 bits>>, so that  *)
(* products are computed modulo 2^32 without leaving the checker's range.  *)
(***************************************************************************)
Half == 2^16
Byte == 2^8

U32(hi, lo) == <<hi, lo>>

Lt32(a, b) == a[1] < b[1] \/ (a[1] = b[1] /\ a[2] < b[2])

Geq32(a, b) == ~Lt32(a, b)

\* (x * y) mod 2^16 for x, y < 2^16
MulMod16(x, y) ==
    ((x % Byte) * y + (((x \div Byte) * y) % Byte) * Byte) % Half

\* (a * b) mod 2^32: the product of two unsigned ints
Mul32(a, b) ==
    LET a0 == a[2] % Byte
        a1 == a[2] \div Byte
        b0 == b[2] % Byte
        b1 == b[2] \div Byte
        p0 == a0 * b0
        p1 == a1 * b0 + a0 * b1
        p2 == a1 * b1
        t  == p0 + (p1 % Byte) * Byte
        lo == t % Half
        hi == p2 + (p1 \div Byte) + (t \div Half)
        cross == MulMod16(a[1], b[2]) + MulMod16(a[2], b[1])
    IN  U32((hi + cross) % Half, lo)

(***************************************************************************)
(* Values the environment (file system, driver) can report.                *)
(***************************************************************************)
\* errno values the code distinguishes; EIO stands for every other errno
Errnos == {"EINVAL", "EAGAIN", "EIO"}

\* geometries VIDIOC_S_FMT / VIDIOC_G_FMT can report: values below, at and
\* above the minimums of lines 119-122, and values whose products wrap
Widths  == {U32(0, 320), U32(0, 640), U32(32768, 0)}
Heights == {U32(0, 240), U32(0, 480), U32(1, 0)}
Strides == {U32(0, 0), U32(0, 1280), U32(1, 0)}
Sizes   == {U32(0, 0), U32(9, 24576), U32(65535, 65535)}

DriverFormats ==
    [width : Widths, height : Heights, bytesperline : Strides, sizeimage : Sizes]

NoFmt == [width |-> U32(0, 0), height |-> U32(0, 0),
          bytesperline |-> U32(0, 0), sizeimage |-> U32(0, 0)]

dev_name(d) == IF d = 0 THEN "/dev/video0" ELSE "/dev/video1"

\* the descriptor open() returns for device d; fd() value-initialises to 0
NoFd == 0
Descriptor(d) == d + 3

\* the address mmap() returns for buffer i of device d: a value distinct from
\* every other live mapping
MmapAddr(d, i) == <<d, i>>
MAP_FAILED == <<-1, -1>>
NullPtr == <<-1, 0>>

NoErr == <<>>
NoTv == -1
NoBuf == [index |-> -1, bytesused |-> 0]

VARIABLES
    pc,         \* position of the main thread
    cur,        \* the subdevice whose member function is running
    unwinding,  \* TRUE while destructors run because of an exception
    err,        \* what() of the exception thrown, NoErr if none
    phase,      \* lifetime of each subdevice object
    fd,         \* subdevice::fd
    buffers,    \* subdevice::buffers
    fmt,        \* constructor local v4l2_format fmt
    req,        \* constructor local v4l2_requestbuffers req (its count)
    i,          \* loop index of the running member function
    tv,         \* poll local tv.tv_sec
    r,          \* poll local r
    buf,        \* poll local v4l2_buffer buf
    opened,     \* kernel: the open descriptors
    maps,       \* kernel: the live mappings of each device
    qstate,     \* kernel: ownership state of each buffer of each device
    devLen,     \* kernel: the length of the buffers of each device
    streaming,  \* kernel: streaming enabled on each device
    cerr,       \* the messages written to std::cerr by warn_error
    calls,      \* history: the system calls each destructor has issued
    h,          \* history of the running (or last) poll call
    crop,       \* history: how the cropping of the last constructor ended
    mem,        \* the bytes of the mapped buffer handed to the callback
    yuy2,       \* main local uint8_t yuy2[640*480*2]
    z,          \* main local uint16_t z[320*240]
    y,          \* main local uint8_t y[320*240]
    reads,      \* history: the offsets of mem the callback has read
    past        \* history: the bytes a callback wrote past the end of its array

ctl    == <<pc, cur, unwinding, err>>
object == <<phase, fd, buffers>>
ctorl  == <<fmt, req, crop>>
polll  == <<tv, r, buf>>
appmem == <<mem, yuy2, z, y, reads, past>>
kernel == <<opened, maps, qstate, devLen, streaming>>
vars   == <<pc, cur, unwinding, err, phase, fd, buffers, fmt, req, i, tv, r,
           buf, opened, maps, qstate, devLen, streaming, cerr, calls, h,
           crop, mem, yuy2, z, y, reads, past>>

NoHist == [dev |-> -1, nIntr |-> 0, nAgain |-> 0, events |-> <<>>,
           deq |-> <<>>, cb |-> <<>>, outcome |-> "none", waitErrno |-> "0",
           tick |-> <<>>, deqErrno |-> "0"]

\* the content of an element of an array nothing has been stored in
Indeterminate == -1

\* lines 240-241: the arrays of main are not initialised
Uninitialized(n) == [k \in 1..n |-> Indeterminate]

Init ==
    /\ pc = "stat"
    /\ cur = 0
    /\ unwinding = FALSE
    /\ err = NoErr
    /\ phase = [d \in Dev |-> IF d = 0 THEN "constructing" ELSE "none"]
    /\ fd = [d \in Dev |-> NoFd]
    /\ buffers = [d \in Dev |-> <<>>]
    /\ fmt = NoFmt
    /\ req = 0
    /\ i = 0
    /\ tv = NoTv
    /\ r = 0
    /\ buf = NoBuf
    /\ opened = {}
    /\ maps = [d \in Dev |-> {}]
    /\ qstate = [d \in Dev |-> <<>>]
    /\ devLen = [d \in Dev |-> 0]
    /\ streaming = [d \in Dev |-> FALSE]
    /\ cerr = <<>>
    /\ calls = [d \in Dev |-> <<>>]
    /\ h = NoHist
    /\ crop = "none"
    /\ mem = <<>>
    /\ yuy2 = Uninitialized(Yuy2Bytes)
    /\ z = Uninitialized(FramePixels)
    /\ y = Uninitialized(FramePixels)
    /\ reads = {}
    /\ past = <<>>

(***************************************************************************)
(* Exceptions.                                                             *)
(***************************************************************************)
\* throw_error(s): the text built in ss is dropped, what() is s
throw_error(s) == <<s>>

\* a throw out of a member function: the locals go out of scope and the
\* exception propagates into main, which has no handler
Throw(what) ==
    /\ pc' = "uncaught"
    /\ err' = what
    /\ fmt' = NoFmt
    /\ req' = 0
    /\ i' = 0
    /\ tv' = NoTv
    /\ r' = 0
    /\ buf' = NoBuf
    /\ crop' = crop

\* a throw out of the constructor: the object never comes to life, so its
\* destructor is not run for it
CtorThrow(what) ==
    /\ Throw(what)
    /\ phase' = [phase EXCEPT ![cur] = "failed"]

(***************************************************************************)
(* subdevice::subdevice, lines 53-169.  xioctl (lines 21-28) repeats the   *)
(* ioctl while it fails with EINTR, so the results the constructor sees    *)
(* are success and the failures with another errno.                        *)
(***************************************************************************)
\* lines 55-64: stat and S_ISCHR
CtorStat ==
    /\ pc = "stat"
    /\ UNCHANGED appmem
    /\ \/ /\ CtorThrow(<<"bad">>)
          /\ UNCHANGED <<cur, unwinding, fd, buffers, kernel, cerr, calls, h>>
       \/ /\ CtorThrow(<<dev_name(cur), " is no device">>)
          /\ UNCHANGED <<cur, unwinding, fd, buffers, kernel, cerr, calls, h>>
       \/ /\ pc' = "open"
          /\ crop' = "none"
          /\ UNCHANGED <<cur, unwinding, err, object, fmt, req, i, polll,
                         kernel, cerr, calls, h>>

\* lines 66-71: open
CtorOpen ==
    /\ pc = "open"
    /\ UNCHANGED appmem
    /\ \/ /\ CtorThrow(<<"bad">>)
          /\ fd' = [fd EXCEPT ![cur] = -1]
          /\ UNCHANGED <<cur, unwinding, buffers, kernel, cerr, calls, h>>
       \/ /\ pc' = "querycap"
          /\ fd' = [fd EXCEPT ![cur] = Descriptor(cur)]
          /\ opened' = opened \cup {Descriptor(cur)}
          /\ UNCHANGED <<cur, unwinding, err, phase, buffers, ctorl, i, polll,
                         maps, qstate, devLen, streaming, cerr, calls, h>>

\* lines 73-81: VIDIOC_QUERYCAP and the two capability tests
CtorQuerycap ==
    /\ pc = "querycap"
    /\ UNCHANGED appmem
    /\ \/ /\ \E e \in Errnos :
                CtorThrow(IF e = "EINVAL"
                          THEN <<dev_name(cur), " is no V4L2 device">>
                          ELSE throw_error("VIDIOC_QUERYCAP"))
          /\ UNCHANGED <<cur, unwinding, fd, buffers, kernel, cerr, calls, h>>
       \/ /\ \E capture \in BOOLEAN, stream \in BOOLEAN :
                IF ~capture
                THEN /\ CtorThrow(<<dev_name(cur), " is no video capture device">>)
                     /\ UNCHANGED <<cur, unwinding, fd, buffers, kernel, cerr, calls, h>>
                ELSE IF ~stream
                THEN /\ CtorThrow(<<dev_name(cur), " does not support streaming I/O">>)
                     /\ UNCHANGED <<cur, unwinding, fd, buffers, kernel, cerr, calls, h>>
                ELSE /\ pc' = "cropcap"
                     /\ UNCHANGED <<cur, unwinding, err, object, ctorl, i, polll,
                                    kernel, cerr, calls, h>>

\* lines 84-99: VIDIOC_CROPCAP, then VIDIOC_S_CROP if it succeeded; every
\* failure is ignored
CtorCropcap ==
    /\ pc = "cropcap"
    /\ UNCHANGED appmem
    /\ \E ok \in BOOLEAN :
          /\ pc' = IF ok THEN "s_crop" ELSE "fmt"
          /\ crop' = IF ok THEN crop ELSE "VIDIOC_CROPCAP failed"
    /\ UNCHANGED <<cur, unwinding, err, object, fmt, req, i, polll, kernel,
                   cerr, calls, h>>

\* mutant: the default case of the switch throws
SCropSwitch_DefaultThrows(e) == IF e = "EINVAL" THEN "break" ELSE "throw"

\* lines 92-98: switch (errno) { case EINVAL: break; default: break; }
SCropSwitch(e) == "break"

\* lines 90-98: VIDIOC_S_CROP with the default rectangle
CtorSCrop ==
    /\ pc = "s_crop"
    /\ UNCHANGED appmem
    /\ \/ /\ crop' = "reset"
          /\ pc' = "fmt"
          /\ UNCHANGED <<cur, unwinding, err, object, fmt, req, i, polll,
                         kernel, cerr, calls, h>>
       \/ \E e \in Errnos :
             IF SCropSwitch(e) = "break"
             THEN /\ crop' = IF e = "EINVAL" THEN "VIDIOC_S_CROP EINVAL"
                                             ELSE "VIDIOC_S_CROP failed"
                  /\ pc' = "fmt"
                  /\ UNCHANGED <<cur, unwinding, err, object, fmt, req, i,
                                 polll, kernel, cerr, calls, h>>
             ELSE /\ CtorThrow(throw_error("VIDIOC_S_CROP"))
                  /\ UNCHANGED <<cur, unwinding, fd, buffers, kernel, cerr,
                                 calls, h>>

\* lines 101-116: VIDIOC_S_FMT (force_format) or VIDIOC_G_FMT; on success fmt
\* holds what the driver reports
CtorFmt ==
    /\ pc = "fmt"
    /\ UNCHANGED appmem
    /\ \/ /\ CtorThrow(throw_error(IF force_format(cur) THEN "VIDIOC_S_FMT"
                                                        ELSE "VIDIOC_G_FMT"))
          /\ UNCHANGED <<cur, unwinding, fd, buffers, kernel, cerr, calls, h>>
       \/ /\ \E f \in DriverFormats : fmt' = f
          /\ pc' = "paranoia"
          /\ UNCHANGED <<cur, unwinding, err, object, req, crop, i, polll,
                         kernel, cerr, calls, h>>

\* mutant: the image size is left as the driver reported it
Paranoia_NoSizeClamp(f) ==
    LET min1 == Mul32(f.width, U32(0, 2))
        bpl  == IF Lt32(f.bytesperline, min1) THEN min1 ELSE f.bytesperline
    IN  [f EXCEPT !.bytesperline = bpl]

\* lines 119-122: "Buggy driver paranoia", in unsigned int arithmetic
Paranoia(f) ==
    LET min1 == Mul32(f.width, U32(0, 2))
        bpl  == IF Lt32(f.bytesperline, min1) THEN min1 ELSE f.bytesperline
        min2 == Mul32(bpl, f.height)
        size == IF Lt32(f.sizeimage, min2) THEN min2 ELSE f.sizeimage
    IN  [f EXCEPT !.bytesperline = bpl, !.sizeimage = size]

CtorParanoia ==
    /\ pc = "paranoia"
    /\ UNCHANGED appmem
    /\ fmt' = Paranoia(fmt)
    /\ req' = ReqCount
    /\ pc' = "reqbufs"
    /\ UNCHANGED <<cur, unwinding, err, object, crop, i, polll, kernel, cerr,
                   calls, h>>

\* mutant: the test of the granted count is off by one
InsufficientBuffers_OffByOne(count) == count < MinBuffers - 1

\* line 134: if(req.count < 2)
InsufficientBuffers(count) == count < MinBuffers

\* buffers.resize(count): count value-initialised elements
Resized(count) == [k \in 1..count |-> [start |-> NullPtr, length |-> 0]]

\* lines 125-139: VIDIOC_REQBUFS with req.count = 4; the driver writes the
\* count it granted into req.count and allocates that many buffers
CtorReqbufs ==
    /\ pc = "reqbufs"
    /\ UNCHANGED appmem
    /\ \/ /\ \E e \in Errnos :
                CtorThrow(IF e = "EINVAL"
                          THEN <<dev_name(cur), " does not support memory mapping">>
                          ELSE throw_error("VIDIOC_REQBUFS"))
          /\ UNCHANGED <<cur, unwinding, fd, buffers, kernel, cerr, calls, h>>
       \/ \E granted \in 0..MaxGrant, len \in 1..MaxBufLen :
             /\ qstate' = [qstate EXCEPT ![cur] = [k \in 1..granted |-> "Free"]]
             /\ devLen' = [devLen EXCEPT ![cur] = len]
             /\ IF InsufficientBuffers(granted)
                THEN /\ CtorThrow(<<"Insufficient buffer memory on ", dev_name(cur)>>)
                     /\ UNCHANGED <<cur, unwinding, fd, buffers, opened, maps,
                                    streaming, cerr, calls, h>>
                ELSE /\ req' = granted
                     /\ buffers' = [buffers EXCEPT ![cur] = Resized(granted)]
                     /\ i' = 0
                     /\ pc' = "querybuf"
                     /\ UNCHANGED <<cur, unwinding, err, phase, fd, fmt, crop,
                                    polll, opened, maps, streaming, cerr,
                                    calls, h>>

\* lines 142-148: VIDIOC_QUERYBUF for buffer i
CtorQuerybuf ==
    /\ pc = "querybuf"
    /\ UNCHANGED appmem
    /\ \/ /\ CtorThrow(throw_error("VIDIOC_QUERYBUF"))
          /\ UNCHANGED <<cur, unwinding, fd, buffers, kernel, cerr, calls, h>>
       \/ /\ buffers' = [buffers EXCEPT ![cur][i + 1].length = devLen[cur]]
          /\ pc' = "mmap"
          /\ UNCHANGED <<cur, unwinding, err, phase, fd, ctorl, i, polll,
                         kernel, cerr, calls, h>>

\* mutant: streaming is turned on before the buffers are queued
AfterMapping_StreamonFirst == "streamon"

\* lines 157-158: after the mapping loop comes the loop that queues
AfterMapping == "qbuf"

\* lines 149-155: mmap of buffer i, then the next turn of the loop at 140
CtorMmap ==
    /\ pc = "mmap"
    /\ UNCHANGED appmem
    /\ \/ /\ buffers' = [buffers EXCEPT ![cur][i + 1].start = MAP_FAILED]
          /\ CtorThrow(throw_error("mmap"))
          /\ UNCHANGED <<cur, unwinding, fd, kernel, cerr, calls, h>>
       \/ /\ buffers' = [buffers EXCEPT ![cur][i + 1].start = MmapAddr(cur, i)]
          /\ maps' = [maps EXCEPT ![cur] = @ \cup {MmapAddr(cur, i)}]
          /\ IF i + 1 < Len(buffers[cur])
             THEN i' = i + 1 /\ pc' = "querybuf"
             ELSE i' = 0 /\ pc' = AfterMapping
          /\ UNCHANGED <<cur, unwinding, err, phase, fd, ctorl, polll, opened,
                         qstate, devLen, streaming, cerr, calls, h>>

\* lines 158-165: VIDIOC_QBUF of buffer i
CtorQbuf ==
    /\ pc = "qbuf"
    /\ UNCHANGED appmem
    /\ \/ /\ CtorThrow(throw_error("VIDIOC_QBUF"))
          /\ UNCHANGED <<cur, unwinding, fd, buffers, kernel, cerr, calls, h>>
       \/ /\ qstate' = [qstate EXCEPT ![cur][i + 1] = "Queued"]
          /\ IF i + 1 < Len(buffers[cur])
             THEN i' = i + 1 /\ pc' = "qbuf"
             ELSE i' = 0 /\ pc' = "streamon"
          /\ UNCHANGED <<cur, unwinding, err, object, ctorl, polll, opened,
                         maps, devLen, streaming, cerr, calls, h>>

\* lines 167-169: VIDIOC_STREAMON, then the constructor returns; main, lines
\* 231-232, constructs dev1 after dev0 and then enters its loop
CtorStreamon ==
    /\ pc = "streamon"
    /\ UNCHANGED appmem
    /\ \/ /\ CtorThrow(throw_error("VIDIOC_STREAMON"))
          /\ UNCHANGED <<cur, unwinding, fd, buffers, kernel, cerr, calls, h>>
       \/ /\ streaming' = [streaming EXCEPT ![cur] = TRUE]
          /\ fmt' = NoFmt
          /\ req' = 0
          /\ IF cur = 0
             THEN /\ cur' = 1
                  /\ pc' = "stat"
                  /\ phase' = [phase EXCEPT ![0] = "live", ![1] = "constructing"]
             ELSE /\ cur' = cur
                  /\ pc' = "loop"
                  /\ phase' = [phase EXCEPT ![cur] = "live"]
          /\ UNCHANGED <<unwinding, err, fd, buffers, crop, i, polll, opened,
                         maps, qstate, devLen, cerr, calls, h>>

(***************************************************************************)
(* main, lines 242-281: one turn of the loop polls dev0, then dev1, then   *)
(* draws.  The window and the drawing calls are external.                  *)
(***************************************************************************)
\* the first live subdevice to destroy, in reverse order of construction
NextToDestroy(ph) ==
    IF ph[1] = "live" THEN 1 ELSE IF ph[0] = "live" THEN 0 ELSE -1

\* mutant: the depth and intensity device is polled first
TickOrder_DepthFirst == <<1, 0>>

\* lines 246 and 252: one pass of the loop polls dev0, then dev1
TickOrder == <<0, 1>>

\* line 242: while (!glfwWindowShouldClose(win)); leaving the loop, main
\* returns and the subdevices are destroyed, dev1 first
MainLoop ==
    /\ pc = "loop"
    /\ UNCHANGED appmem
    /\ \/ /\ pc' = "poll_enter"
          /\ cur' = TickOrder[1]
          /\ crop' = "none"
          /\ UNCHANGED <<unwinding, err, object, fmt, req, i, polll, kernel,
                         cerr, calls, h>>
       \/ /\ pc' = "streamoff"
          /\ cur' = 1
          /\ phase' = [phase EXCEPT ![1] = "destroying"]
          /\ crop' = "none"
          /\ UNCHANGED <<unwinding, err, fd, buffers, fmt, req, i, polll,
                         kernel, cerr, calls, h>>

\* lines 263-280: the drawing calls
MainRender ==
    /\ pc = "render"
    /\ UNCHANGED appmem
    /\ pc' = "loop"
    /\ h' = NoHist
    /\ UNCHANGED <<cur, unwinding, err, object, ctorl, i, polll, kernel, cerr,
                   calls>>

(***************************************************************************)
(* subdevice::poll, lines 184-226.                                         *)
(***************************************************************************)
\* mutant: the error is dropped and poll goes on to return
PollThrow_Ignored(what) ==
    /\ pc' = "break"
    /\ UNCHANGED <<err, fmt, req, crop, i, tv, r, buf, phase>>

\* a throw out of poll
PollThrow(what) ==
    /\ Throw(what)
    /\ UNCHANGED phase

PollEnter ==
    /\ pc = "poll_enter"
    /\ UNCHANGED appmem
    /\ h' = [NoHist EXCEPT !.dev = cur, !.outcome = "running",
                           !.tick = Append(h.tick, <<"poll", cur>>)]
    /\ pc' = "poll_top"
    /\ UNCHANGED <<cur, unwinding, err, object, ctorl, i, polll, kernel, cerr,
                   calls>>

\* mutant: tv is set once, before the loop, and not again
TvAtLoopTop_SetOnce(old) == IF old = NoTv THEN TimeoutSec ELSE old

\* lines 196-197, at the top of every turn of for(;;): tv.tv_sec = 2
TvAtLoopTop(old) == TimeoutSec

PollTop ==
    /\ pc = "poll_top"
    /\ UNCHANGED appmem
    /\ tv' = TvAtLoopTop(tv)
    /\ pc' = "select"
    /\ UNCHANGED <<cur, unwinding, err, object, ctorl, i, r, buf, kernel, cerr,
                   calls, h>>

\* mutant: the buffer is not given back to the device
PollOrder_NoRequeue == <<"dqbuf", "callback">>

\* mutant: the buffer is given back to the device before the callback runs
PollOrder_RequeueFirst == <<"dqbuf", "requeue", "callback">>

\* lines 211-224: what one turn does once select reported the descriptor
\* ready: VIDIOC_DQBUF, the callback f, VIDIOC_QBUF, break
PollOrder == <<"dqbuf", "callback", "requeue">>

AfterStep(step) ==
    LET k == CHOOSE n \in 1..Len(PollOrder) : PollOrder[n] = step
    IN  IF k < Len(PollOrder) THEN PollOrder[k + 1] ELSE "break"

\* mutant: the timeout throws the message of the other wait failures
SelectTimeoutMsg_Same == throw_error("select")

\* what() of the exception for r == 0 (line 208) and for r == -1 (line 204)
SelectTimeoutMsg == throw_error("select timeout")
SelectFailedMsg == throw_error("select")

\* lines 199-209: select.  Interrupted, it may have rewritten tv with the
\* time not slept; tv is not read on the other paths
PollSelect ==
    /\ pc = "select"
    /\ UNCHANGED appmem
    /\ \/ \E e \in Errnos \cup {"EINTR"} :
             IF e = "EINTR"
             THEN /\ h.nIntr < MaxIntr
                  /\ r' = -1
                  /\ \E left \in 0..tv : tv' = left
                  /\ h' = [h EXCEPT !.nIntr = @ + 1]
                  /\ pc' = "poll_top"
                  /\ UNCHANGED <<cur, unwinding, err, object, ctorl, i, buf,
                                 kernel, cerr, calls>>
             ELSE /\ h' = [h EXCEPT !.outcome = "wait failed", !.waitErrno = e]
                  /\ PollThrow(SelectFailedMsg)
                  /\ UNCHANGED <<cur, unwinding, fd, buffers, kernel, cerr,
                                 calls>>
       \/ /\ h' = [h EXCEPT !.outcome = "wait timed out"]
          /\ PollThrow(SelectTimeoutMsg)
          /\ UNCHANGED <<cur, unwinding, fd, buffers, kernel, cerr, calls>>
       \/ /\ r' = 1
          /\ pc' = PollOrder[1]
          /\ UNCHANGED <<cur, unwinding, err, object, ctorl, i, tv, buf,
                         kernel, cerr, calls, h>>

\* mutant: no errno of VIDIOC_DQBUF is retried
DequeueRetries_Never(e) == FALSE

\* line 216: if(errno == EAGAIN) continue
DequeueRetries(e) == e = "EAGAIN"

\* lines 211-219: VIDIOC_DQBUF hands a buffer the device has filled to the
\* application and reports its index and the bytes produced; EAGAIN when the
\* device has filled none yet
PollDqbuf ==
    /\ pc = "dqbuf"
    /\ UNCHANGED appmem
    /\ \/ \E e \in Errnos :
             IF DequeueRetries(e)
             THEN /\ h.nAgain < MaxAgain
                  /\ h' = [h EXCEPT !.nAgain = @ + 1]
                  /\ pc' = "poll_top"
                  /\ UNCHANGED <<cur, unwinding, err, object, ctorl, i, polll,
                                 kernel, cerr, calls>>
             ELSE /\ h' = [h EXCEPT !.outcome = "dequeue failed",
                                    !.deqErrno = e]
                  /\ PollThrow(throw_error("VIDIOC_DQBUF"))
                  /\ UNCHANGED <<cur, unwinding, fd, buffers, kernel, cerr,
                                 calls>>
       \/ \E k \in DOMAIN qstate[cur], used \in 0..devLen[cur] :
             /\ streaming[cur]
             /\ qstate[cur][k] = "Queued"
             /\ qstate' = [qstate EXCEPT ![cur][k] = "App"]
             /\ buf' = [index |-> k - 1, bytesused |-> used]
             /\ h' = [h EXCEPT !.events = Append(@, <<"dequeue", k - 1>>),
                               !.deq = Append(@, [index |-> k - 1,
                                                  bytesused |-> used])]
             /\ pc' = AfterStep("dqbuf")
             /\ UNCHANGED <<cur, unwinding, err, object, ctorl, i, tv, r,
                            opened, maps, devLen, streaming, cerr, calls>>

\* mutant: the callback is given the capacity of the buffer
CallbackArgs_Length(d, b) ==
    <<buffers[d][b.index + 1].start, buffers[d][b.index + 1].length>>

\* line 221: f(buffers[buf.index].start, buf.bytesused)
CallbackArgs(d, b) == <<buffers[d][b.index + 1].start, b.bytesused>>

PollCallback ==
    /\ pc = "callback"
    /\ UNCHANGED appmem
    /\ h' = [h EXCEPT !.cb = Append(@, CallbackArgs(cur, buf)),
                      !.events = Append(@, <<"cb_start", buf.index>>)]
    /\ pc' = "in_callback"
    /\ UNCHANGED <<cur, unwinding, err, object, ctorl, i, polll, kernel, cerr,
                   calls>>

\* the callbacks of main (lines 246-261) return without throwing
CallbackReturns ==
    /\ h' = [h EXCEPT !.events = Append(@, <<"cb_return", buf.index>>)]
    /\ pc' = AfterStep("callback")
    /\ UNCHANGED <<cur, unwinding, err, object, ctorl, i, polll, kernel, cerr,
                   calls>>

\* Spec follows who owns the buffers and where control is; what the
\* callbacks store in the arrays of main is followed in SpecDecode
PollCallbackReturn ==
    /\ pc = "in_callback"
    /\ UNCHANGED appmem
    /\ CallbackReturns

\* line 223: VIDIOC_QBUF of the buffer just dequeued
PollRequeue ==
    /\ pc = "requeue"
    /\ UNCHANGED appmem
    /\ \/ /\ h' = [h EXCEPT !.outcome = "requeue failed"]
          /\ PollThrow(throw_error("VIDIOC_QBUF"))
          /\ UNCHANGED <<cur, unwinding, fd, buffers, kernel, cerr, calls>>
       \/ /\ qstate' = [qstate EXCEPT ![cur][buf.index + 1] = "Queued"]
          /\ h' = [h EXCEPT !.events = Append(@, <<"requeue", buf.index>>)]
          /\ pc' = AfterStep("requeue")
          /\ UNCHANGED <<cur, unwinding, err, object, ctorl, i, polll, opened,
                         maps, devLen, streaming, cerr, calls>>

\* line 224: break, and poll returns to main: after dev0.poll comes
\* dev1.poll (line 252), after dev1.poll the drawing
PollBreak ==
    /\ pc = "break"
    /\ UNCHANGED appmem
    /\ h' = [h EXCEPT !.outcome = "ok",
                      !.tick = Append(h.tick, <<"returned", cur>>)]
    /\ tv' = NoTv
    /\ r' = 0
    /\ buf' = NoBuf
    /\ IF cur = TickOrder[1]
       THEN cur' = TickOrder[2] /\ pc' = "poll_enter"
       ELSE cur' = cur /\ pc' = "render"
    /\ UNCHANGED <<unwinding, err, object, ctorl, i, kernel, cerr, calls>>

(***************************************************************************)
(* An exception nobody catches: std::terminate is called, and it is        *)
(* implementation-defined whether the stack is unwound first, which would  *)
(* run the destructors of the subdevices already constructed.              *)
(***************************************************************************)
Uncaught ==
    /\ pc = "uncaught"
    /\ UNCHANGED appmem
    /\ h' = NoHist
    /\ crop' = "none"
    /\ \/ /\ pc' = "terminated"
          /\ UNCHANGED <<cur, unwinding, err, object, fmt, req, i, polll,
                         kernel, cerr, calls>>
       \/ /\ NextToDestroy(phase) >= 0
          /\ unwinding' = TRUE
          /\ cur' = NextToDestroy(phase)
          /\ phase' = [phase EXCEPT ![NextToDestroy(phase)] = "destroying"]
          /\ pc' = "streamoff"
          /\ UNCHANGED <<err, fd, buffers, fmt, req, i, polll, kernel, cerr,
                         calls>>

(***************************************************************************)
(* subdevice::~subdevice, lines 171-182.                                   *)
(***************************************************************************)
\* warn_error(s), lines 42-45: writes to std::cerr and returns
warn_error(log, s) == Append(log, s)

\* mutant: a failing step ends the destructor with an exception
AfterWarning_Throw(next) == "terminated"

\* where the destructor goes on after a step failed and was warned about
AfterWarning(next) == next

\* line 174: VIDIOC_STREAMOFF; on success the driver takes every buffer out
\* of its queues
DtorStreamoff ==
    /\ pc = "streamoff"
    /\ UNCHANGED appmem
    /\ calls' = [calls EXCEPT ![cur] = Append(@, "VIDIOC_STREAMOFF")]
    /\ i' = 0
    /\ \/ /\ Len(cerr) < MaxWarn
          /\ cerr' = warn_error(cerr, "VIDIOC_STREAMOFF")
          /\ pc' = AfterWarning("munmap")
          /\ UNCHANGED kernel
       \/ /\ streaming' = [streaming EXCEPT ![cur] = FALSE]
          /\ qstate' = [qstate EXCEPT ![cur] = [k \in DOMAIN @ |-> "Free"]]
          /\ pc' = "munmap"
          /\ UNCHANGED <<opened, maps, devLen, cerr>>
    /\ UNCHANGED <<cur, unwinding, err, object, ctorl, polll, h>>

\* lines 176-179: munmap of buffer i
DtorMunmap ==
    /\ pc = "munmap"
    /\ UNCHANGED appmem
    /\ calls' = [calls EXCEPT ![cur] = Append(@, "munmap")]
    /\ LET next == IF i + 1 < Len(buffers[cur]) THEN "munmap" ELSE "close"
       IN  \/ /\ Len(cerr) < MaxWarn
              /\ cerr' = warn_error(cerr, "munmap")
              /\ pc' = AfterWarning(next)
              /\ UNCHANGED maps
           \/ /\ maps' = [maps EXCEPT ![cur] = @ \ {buffers[cur][i + 1].start}]
              /\ pc' = next
              /\ UNCHANGED cerr
    /\ i' = IF i + 1 < Len(buffers[cur]) THEN i + 1 ELSE 0
    /\ UNCHANGED <<cur, unwinding, err, object, ctorl, polll, opened, qstate,
                   devLen, streaming, h>>

\* after the destructor body: the next subdevice to destroy, or the end of
\* the process
AfterDtor(d) ==
    IF d = 1 /\ phase[0] = "live" THEN "streamoff"
    ELSE IF unwinding THEN "terminated" ELSE "exit"

\* line 181: close; whether a failed close released the descriptor is
\* unspecified
DtorClose ==
    /\ pc = "close"
    /\ UNCHANGED appmem
    /\ calls' = [calls EXCEPT ![cur] = Append(@, "close")]
    /\ \/ /\ Len(cerr) < MaxWarn
          /\ cerr' = warn_error(cerr, "close")
          /\ pc' = AfterWarning(AfterDtor(cur))
          /\ \/ opened' = opened
             \/ opened' = opened \ {fd[cur]}
       \/ /\ opened' = opened \ {fd[cur]}
          /\ pc' = AfterDtor(cur)
          /\ UNCHANGED cerr
    /\ IF cur = 1 /\ phase[0] = "live"
       THEN cur' = 0 /\ phase' = [phase EXCEPT ![1] = "destroyed", ![0] = "destroying"]
       ELSE cur' = cur /\ phase' = [phase EXCEPT ![cur] = "destroyed"]
    /\ UNCHANGED <<unwinding, err, fd, buffers, ctorl, i, polll, maps, qstate,
                   devLen, streaming, h>>

Next ==
    \/ CtorStat
    \/ CtorOpen
    \/ CtorQuerycap
    \/ CtorCropcap
    \/ CtorSCrop
    \/ CtorFmt
    \/ CtorParanoia
    \/ CtorReqbufs
    \/ CtorQuerybuf
    \/ CtorMmap
    \/ CtorQbuf
    \/ CtorStreamon
    \/ MainLoop
    \/ MainRender
    \/ PollEnter
    \/ PollTop
    \/ PollSelect
    \/ PollDqbuf
    \/ PollCallback
    \/ PollCallbackReturn
    \/ PollRequeue
    \/ PollBreak
    \/ Uncaught
    \/ DtorStreamoff
    \/ DtorMunmap
    \/ DtorClose

Spec == Init /\ [][Next]_vars

(***************************************************************************)
(* Properties.                                                             *)
(***************************************************************************)
\* the events of kind `kind` in the history of the poll
EventsOf(kind) == SelectSeq(h.events, LAMBDA e : e[1] = kind)

\* every buffer of device d is queued to the device
AllQueued(d) == \A k \in DOMAIN qstate[d] : qstate[d][k] = "Queued"

\* the buffers of device d the application owns
AppOwned(d) == {k \in DOMAIN qstate[d] : qstate[d][k] = "App"}

\* C1: when poll has returned successfully on a pool of n >= 2 buffers, it
\* has re-queued exactly one buffer, once, the one it dequeued, and every
\* buffer of the pool is queued to the device again, none application-owned.
C1_RequeuedBeforeReturn ==
    h.outcome = "ok" =>
        /\ Len(qstate[h.dev]) >= MinBuffers
        /\ Len(EventsOf("dequeue")) = 1
        /\ Len(EventsOf("requeue")) = 1
        /\ EventsOf("requeue")[1][2] = EventsOf("dequeue")[1][2]
        /\ AllQueued(h.dev)
        /\ AppOwned(h.dev) = {}

C1_Witness ==
    /\ h.outcome = "ok"
    /\ h.dev = 1
    /\ Len(qstate[1]) = ReqCount
    /\ EventsOf("requeue") = <<<<"requeue", ReqCount - 1>>>>

\* C2: in every reachable state at most one buffer of a device is owned by
\* the application, and while the session is live (not in its constructor or
\* destructor) every other buffer is queued to the device.
C2_AtMostOneAppOwned ==
    \A d \in Dev :
        /\ Cardinality(AppOwned(d)) <= 1
        /\ phase[d] = "live" =>
              \A k \in DOMAIN qstate[d] : qstate[d][k] \in {"Queued", "App"}

C2_Witness ==
    /\ pc = "in_callback"
    /\ cur = 0
    /\ AppOwned(0) = {2}
    /\ phase[1] = "live"
    /\ AllQueued(1)

\* C3: when the constructor fails after the device was opened, every mapping
\* made so far has been unmapped and the descriptor closed by the time the
\* exception reaches the caller.
C3_FailedStartReleases ==
    (pc = "uncaught" /\ phase[cur] = "failed" /\ fd[cur] = Descriptor(cur)) =>
        /\ maps[cur] = {}
        /\ fd[cur] \notin opened

\* C4: the constructor requests 4 buffers; with fewer than 2 granted it
\* fails with "Insufficient buffer memory" with nothing mapped, nothing
\* queued and streaming off; with 2 or more granted the test passes; a live
\* session has at least 2 buffers and its pool size never changes.
C4_PoolState ==
    /\ pc = "reqbufs" => req = ReqCount
    /\ (pc = "uncaught" /\ phase[cur] = "failed"
          /\ err = <<"Insufficient buffer memory on ", dev_name(cur)>>) =>
              /\ Len(qstate[cur]) < MinBuffers
              /\ buffers[cur] = <<>>
              /\ maps[cur] = {}
              /\ \A k \in DOMAIN qstate[cur] : qstate[cur][k] = "Free"
              /\ ~streaming[cur]
    /\ (pc = "uncaught" /\ phase[cur] = "failed" /\ Len(qstate[cur]) = 1) =>
              err = <<"Insufficient buffer memory on ", dev_name(cur)>>
    /\ pc \in {"querybuf", "mmap", "qbuf", "streamon"} =>
              /\ Len(qstate[cur]) >= MinBuffers
              /\ Len(buffers[cur]) = Len(qstate[cur])
    /\ \A d \in Dev : phase[d] = "live" => Len(buffers[d]) >= MinBuffers

C4_PoolSizeFixed ==
    \A d \in Dev :
        (phase[d] = "live" /\ phase'[d] \in {"live", "destroying"}) =>
            Len(buffers'[d]) = Len(buffers[d])

C4_BufferCount == []C4_PoolState /\ [][C4_PoolSizeFixed]_vars

C4_Witness ==
    /\ pc = "select"
    /\ Len(buffers[0]) = MinBuffers
    /\ Len(buffers[1]) = ReqCount
    /\ phase[0] = "live"
    /\ phase[1] = "live"

\* C5: every call of select in poll starts with the full timeout of 2 s, also
\* after interruptions; a wait that fails did not fail with EINTR; and a poll
\* that returned successfully after any number of interruptions has invoked
\* the callback exactly once.
C5_InterruptedWaitRestarts ==
    /\ pc = "select" => tv = TimeoutSec
    /\ h.outcome = "wait failed" => h.waitErrno # "EINTR"
    /\ (h.outcome = "ok" /\ h.nIntr > 0) => Len(h.cb) = 1

C5_Witness ==
    /\ h.outcome = "ok"
    /\ h.nIntr = MaxIntr
    /\ h.nAgain = 0
    /\ Len(h.cb) = 1

\* C6: a poll whose wait timed out throws "select timeout", a poll whose wait
\* failed otherwise throws "select", so the two are told apart by what(); in
\* both cases nothing was dequeued, the callback was not invoked, nothing was
\* re-queued and every buffer is still queued to the device.
C6_WaitFailures ==
    (pc = "uncaught" /\ h.dev \in Dev) =>
        /\ h.outcome = "wait timed out" <=> err = <<"select timeout">>
        /\ h.outcome = "wait failed" <=> err = <<"select">>
        /\ h.outcome \in {"wait timed out", "wait failed"} =>
              /\ h.events = <<>>
              /\ h.deq = <<>>
              /\ h.cb = <<>>
              /\ AllQueued(h.dev)
              /\ Len(qstate[h.dev]) = Len(buffers[h.dev])

C6_Witness ==
    /\ pc = "uncaught"
    /\ h.dev = 1
    /\ h.outcome = "wait timed out"
    /\ err = <<"select timeout">>
    /\ h.nIntr > 0

\* C7: after the defensive-minimum step, bytesperline >= 2 * width and
\* sizeimage >= bytesperline * height, the products taken modulo 2^32, for
\* every geometry the driver reports; the step changes neither width nor
\* height, and leaves a value that is at or above its minimum as it is.
C7_Minimums ==
    pc \in {"reqbufs", "querybuf", "mmap", "qbuf", "streamon"} =>
        /\ Geq32(fmt.bytesperline, Mul32(fmt.width, U32(0, 2)))
        /\ Geq32(fmt.sizeimage, Mul32(fmt.bytesperline, fmt.height))

C7_Unchanged ==
    pc = "paranoia" =>
        /\ fmt'.width = fmt.width
        /\ fmt'.height = fmt.height
        /\ Geq32(fmt.bytesperline, Mul32(fmt.width, U32(0, 2))) =>
              fmt'.bytesperline = fmt.bytesperline
        /\ Geq32(fmt.sizeimage, Mul32(fmt'.bytesperline, fmt.height)) =>
              fmt'.sizeimage = fmt.sizeimage

C7_DefensiveMinimums == []C7_Minimums /\ [][C7_Unchanged]_vars

C7_Witness ==
    /\ pc = "reqbufs"
    /\ cur = 1
    /\ fmt = [width |-> U32(0, 320), height |-> U32(0, 240),
              bytesperline |-> U32(0, 640), sizeimage |-> U32(2, 22528)]

\* the system calls the destructor of a pool of n buffers issues, in order
TeardownCalls(n) ==
    <<"VIDIOC_STREAMOFF">> \o [k \in 1..n |-> "munmap"] \o <<"close">>

IsPrefix(a, b) == Len(a) <= Len(b) /\ a = SubSeq(b, 1, Len(a))

\* C8: the destructor of a live session issues stream-off, one unmap per
\* buffer, and close, in this order; whichever of them fail, it goes on to
\* the next, writes a warning, and never ends with an exception.
C8_TeardownCompletes ==
    \A d \in Dev :
        /\ phase[d] = "destroying" =>
              /\ cur = d
              /\ pc \in {"streamoff", "munmap", "close"}
              /\ IsPrefix(calls[d], TeardownCalls(Len(buffers[d])))
              /\ pc = "streamoff" <=> calls[d] = <<>>
              /\ pc = "munmap" => Len(calls[d]) = i + 1
              /\ pc = "close" => Len(calls[d]) = Len(buffers[d]) + 1
        /\ phase[d] = "destroyed" => calls[d] = TeardownCalls(Len(buffers[d]))
        /\ phase[d] \notin {"destroying", "destroyed"} => calls[d] = <<>>

C8_Witness ==
    /\ phase[1] = "destroyed"
    /\ ~unwinding
    /\ cerr = <<"VIDIOC_STREAMOFF", "munmap">>
    /\ calls[1] = TeardownCalls(ReqCount)
    /\ Descriptor(1) \notin opened

\* the events of one successful poll on buffer b, in order
PollEvents(b) ==
    <<<<"dequeue", b>>, <<"cb_start", b>>, <<"cb_return", b>>, <<"requeue", b>>>>

\* C9: the events of a poll on a buffer come in the order dequeue, callback
\* start, callback return, re-queue; while the callback runs the buffer it
\* reads is owned by the application, not queued to the device.
C9_EventOrder ==
    /\ pc = "in_callback" =>
          /\ qstate[cur][buf.index + 1] = "App"
          /\ h.cb[Len(h.cb)][1] = MmapAddr(cur, buf.index)
    /\ \E b \in 0..MaxGrant : IsPrefix(h.events, PollEvents(b))
    /\ h.outcome = "ok" => \E b \in 0..MaxGrant : h.events = PollEvents(b)

C9_Witness ==
    /\ h.outcome = "ok"
    /\ h.dev = 0
    /\ h.events = PollEvents(1)

\* C10: a poll that returned successfully has invoked the callback exactly
\* once, with the address of the one buffer it dequeued and the byte count
\* VIDIOC_DQBUF reported for it, however often the wait was interrupted or
\* the dequeue said EAGAIN; a poll that failed in the wait or in the dequeue
\* has not invoked it.
C10_CallbackOnce ==
    /\ h.outcome = "ok" =>
          /\ Len(h.deq) = 1
          /\ h.cb = <<<<MmapAddr(h.dev, h.deq[1].index), h.deq[1].bytesused>>>>
    /\ h.outcome \in {"wait timed out", "wait failed", "dequeue failed"} =>
          h.cb = <<>>

C10_Witness ==
    /\ h.outcome = "ok"
    /\ h.nIntr = MaxIntr
    /\ h.nAgain = MaxAgain
    /\ h.cb = <<<<MmapAddr(1, 1), 0>>>>

\* every buffer of the pool of device d is mapped
FullyMapped(d) ==
    /\ Len(buffers[d]) = Len(qstate[d])
    /\ \A k \in DOMAIN buffers[d] :
          /\ buffers[d][k].start = MmapAddr(d, k - 1)
          /\ buffers[d][k].start \in maps[d]

\* C13: the constructor turns streaming on only with every granted buffer
\* mapped and queued to the device, none free or application-owned, and it
\* returns in that state; while a session is under construction, or after
\* its construction failed (a failed VIDIOC_QBUF included), streaming is off.
C13_BeforeStreaming ==
    /\ pc = "streamon" =>
          /\ Len(qstate[cur]) >= MinBuffers
          /\ FullyMapped(cur)
          /\ AllQueued(cur)
    /\ \A d \in Dev :
          phase[d] \in {"none", "constructing", "failed"} => ~streaming[d]

C13_StreamonStep ==
    \A d \in Dev :
        (~streaming[d] /\ streaming'[d]) =>
            /\ pc = "streamon"
            /\ phase'[d] = "live"
            /\ FullyMapped(d)'
            /\ AllQueued(d)'
            /\ AppOwned(d)' = {}

C13_StreamAfterQueueing == []C13_BeforeStreaming /\ [][C13_StreamonStep]_vars

C13_Witness ==
    /\ pc = "stat"
    /\ cur = 1
    /\ phase[0] = "live"
    /\ streaming[0]
    /\ Len(qstate[0]) = MinBuffers + 1
    /\ AllQueued(0)

\* the pcs inside subdevice::poll
InPoll == {"poll_top", "select", "dqbuf", "callback", "in_callback",
           "requeue", "break"}

\* the pcs after an exception left main
AfterThrow == {"uncaught", "terminated", "streamoff", "munmap", "close"}

\* one complete pass of the loop, before the drawing
FullTick == <<<<"poll", 0>>, <<"returned", 0>>, <<"poll", 1>>,
              <<"returned", 1>>>>

\* C14: within one pass of the main loop the color device (0) is polled
\* first and the depth device (1) only after that poll returned; the drawing
\* runs only after both polls returned; once a poll has thrown, no further
\* poll and no drawing happens.
C14_SequentialTick ==
    /\ IsPrefix(h.tick, FullTick)
    /\ (pc \in InPoll /\ cur = 0) => h.tick = SubSeq(FullTick, 1, 1)
    /\ (pc \in InPoll /\ cur = 1) => h.tick = SubSeq(FullTick, 1, 3)
    /\ pc = "render" => h.tick = FullTick
    /\ err # NoErr => pc \in AfterThrow

C14_Witness ==
    /\ pc = "render"
    /\ h.tick = FullTick
    /\ h.dev = 1
    /\ h.outcome = "ok"

\* C15: when VIDIOC_QBUF fails after the callback returned, poll throws
\* "VIDIOC_QBUF": it does not return, the callback has run once, the buffer
\* has not gone back to the device, and no second dequeue or queueing was
\* tried.
C15_RequeueFailureThrows ==
    h.outcome = "requeue failed" =>
        /\ pc = "uncaught"
        /\ err = throw_error("VIDIOC_QBUF")
        /\ Len(h.deq) = 1
        /\ Len(h.cb) = 1
        /\ h.events = SubSeq(PollEvents(h.deq[1].index), 1, 3)
        /\ qstate[h.dev][h.deq[1].index + 1] = "App"
        /\ h.tick[Len(h.tick)] = <<"poll", h.dev>>

C15_Witness ==
    /\ h.outcome = "requeue failed"
    /\ h.dev = 1
    /\ pc = "uncaught"
    /\ Len(h.cb) = 1
    /\ h.nIntr = 1

\* C16: a VIDIOC_DQBUF that fails with EAGAIN does not end poll: that turn
\* runs no callback and queues nothing, and the next select starts with the
\* full timeout; poll throws "VIDIOC_DQBUF" only for another errno.
C16_State ==
    /\ pc = "select" => tv = TimeoutSec
    /\ h.outcome = "dequeue failed" =>
          /\ h.deqErrno \in Errnos \ {"EAGAIN"}
          /\ err = throw_error("VIDIOC_DQBUF")
          /\ pc = "uncaught"
          /\ h.events = <<>>
          /\ h.cb = <<>>
    /\ h.outcome # "dequeue failed" => h.deqErrno = "0"

C16_TryAgainStep ==
    h'.nAgain = h.nAgain + 1 =>
        /\ pc = "dqbuf"
        /\ pc' = "poll_top"
        /\ err' = NoErr
        /\ h'.outcome = "running"
        /\ h'.events = h.events
        /\ h'.cb = h.cb
        /\ qstate' = qstate

C16_TryAgainGoesBackToWait == []C16_State /\ [][C16_TryAgainStep]_vars

C16_Witness ==
    /\ h.outcome = "ok"
    /\ h.nAgain = MaxAgain
    /\ h.nIntr = 0
    /\ h.dev = 0
    /\ Len(h.cb) = 1

\* the ways the cropping of lines 84-99 can end
CropOutcomes == {"VIDIOC_CROPCAP failed", "VIDIOC_S_CROP EINVAL",
                 "VIDIOC_S_CROP failed", "reset"}

\* C19: however the cropping ends (VIDIOC_CROPCAP fails, VIDIOC_S_CROP
\* fails with EINVAL, fails with another errno, or succeeds), the
\* constructor goes on to the format step with nothing else changed and no
\* exception, and no exception it throws later names the cropping.
C19_State ==
    /\ pc = "fmt" =>
          /\ crop \in CropOutcomes
          /\ err = NoErr
          /\ phase[cur] = "constructing"
    /\ err \notin {throw_error("VIDIOC_CROPCAP"), throw_error("VIDIOC_S_CROP")}

C19_CropStep ==
    pc \in {"cropcap", "s_crop"} =>
        /\ pc' \in {"s_crop", "fmt"}
        /\ UNCHANGED <<cur, unwinding, err, object, fmt, req, i, polll,
                       kernel, cerr, calls, h>>

C19_CroppingIgnored == []C19_State /\ [][C19_CropStep]_vars

C19_Witness ==
    /\ pc = "loop"
    /\ phase = [d \in Dev |-> "live"]
    /\ streaming[1]
    /\ crop = "VIDIOC_S_CROP failed"

(***************************************************************************)
(* SpecDecode: the callbacks of main, lines 246-261, on the contents of    *)
(* the buffer they are given.  A behaviour starts where poll has just      *)
(* called the callback (line 221) and ends where the callback returned.    *)
(***************************************************************************)
\* the values a byte the device produced takes
ByteVals == {1, 2}

\* the values a read outside the mapping can yield
GarbageVals == {0, 1, 2}

\* the longest mapped buffer: one byte more than a depth and intensity frame
MaxMapLen == 3 * FramePixels + 1

\* two packed elements: depths 100 and 4000, intensities 10 and 250
ExampleFrame == <<100, 0, 10, 160, 15, 250>>

ExampleMem(len) ==
    [k \in 1..len |-> IF k <= Len(ExampleFrame) THEN ExampleFrame[k] ELSE 1]

\* what a mapped buffer of len bytes can hold
Contents(len) ==
    [1..len -> ByteVals]
        \cup (IF len >= Len(ExampleFrame) THEN {ExampleMem(len)} ELSE {})

\* the state of poll at line 221 for device d, with buffer 0 of len bytes
\* dequeued and used bytes of it reported as produced
DecodeEntry(d, len, used) ==
    /\ pc = "in_callback"
    /\ cur = d
    /\ unwinding = FALSE
    /\ err = NoErr
    /\ phase = [e \in Dev |-> "live"]
    /\ fd = [e \in Dev |-> Descriptor(e)]
    /\ buffers = [e \in Dev |->
                    [k \in 1..MinBuffers |->
                        [start |-> MmapAddr(e, k - 1), length |-> len]]]
    /\ fmt = NoFmt
    /\ req = 0
    /\ i = 0
    /\ tv = TimeoutSec
    /\ r = 1
    /\ buf = [index |-> 0, bytesused |-> used]
    /\ opened = {Descriptor(e) : e \in Dev}
    /\ maps = [e \in Dev |-> {MmapAddr(e, k - 1) : k \in 1..MinBuffers}]
    /\ qstate = [e \in Dev |->
                   [k \in 1..MinBuffers |->
                       IF e = d /\ k = 1 THEN "App" ELSE "Queued"]]
    /\ devLen = [e \in Dev |-> len]
    /\ streaming = [e \in Dev |-> TRUE]
    /\ cerr = <<>>
    /\ calls = [e \in Dev |-> <<>>]
    /\ h = [NoHist EXCEPT !.dev = d,
                          !.outcome = "running",
                          !.events = <<<<"dequeue", 0>>, <<"cb_start", 0>>>>,
                          !.deq = <<[index |-> 0, bytesused |-> used]>>,
                          !.cb = <<<<MmapAddr(d, 0), used>>>>,
                          !.tick = SubSeq(FullTick, 1, IF d = 0 THEN 1 ELSE 3)]
    /\ crop = "none"

DecodeInit ==
    \E d \in Dev, len \in 1..MaxMapLen :
        \E used \in 0..len :
            /\ DecodeEntry(d, len, used)
            /\ mem \in Contents(len)
            /\ yuy2 = Uninitialized(Yuy2Bytes)
            /\ z = Uninitialized(FramePixels)
            /\ y = Uninitialized(FramePixels)
            /\ reads = {}
            /\ past = <<>>

\* the program dies inside the callback
Crashes ==
    /\ pc' = "crashed"
    /\ UNCHANGED <<cur, unwinding, err, object, ctorl, i, polll, kernel, cerr,
                   calls, h>>

\* lines 246-250: memcpy(yuy2, data, size).  A size beyond the array is
\* undefined behaviour: the bytes land in what lies behind yuy2, or the
\* program dies.
ColorCallback ==
    /\ pc = "in_callback"
    /\ cur = 0
    /\ LET size == CallbackArgs(cur, buf)[2]
       IN  /\ reads' = 0..(size - 1)
           /\ yuy2' = [k \in 1..Yuy2Bytes |->
                          IF k <= size THEN mem[k] ELSE yuy2[k]]
           /\ past' = [k \in 1..(size - Yuy2Bytes) |-> mem[Yuy2Bytes + k]]
           /\ \/ CallbackReturns
              \/ size > Yuy2Bytes /\ Crashes
    /\ UNCHANGED <<mem, z, y>>

\* mutant: the structure without #pragma pack, padded to two-byte alignment
SizeofPixel_Unpacked == 2 + 1 + 1

\* lines 31-33: sizeof(z16y8_pixel) under #pragma pack(push, 1)
SizeofPixel == 2 + 1

\* the byte at offset off of the buffer; outside the mapping the read is
\* undefined behaviour and g gives what it yields
ReadByte(off, g) == IF off < Len(mem) THEN mem[off + 1] ELSE g[off]

\* a uint16_t read from memory on a little-endian host
ReadU16(off, g) == ReadByte(off, g) + Byte * ReadByte(off + 1, g)

\* line 257: in[k].z, the field at offset 0 of element k
PixelZ(k, g) == ReadU16(SizeofPixel * k, g)

\* line 258: in[k].y, the field at offset 2 of element k
PixelY(k, g) == ReadByte(SizeofPixel * k + 2, g)

\* lines 252-261: the loop over 320*240 elements, whatever size is.  A read
\* outside the mapping is undefined behaviour: it yields some value, or the
\* program dies.
DepthCallback ==
    /\ pc = "in_callback"
    /\ cur = 1
    /\ LET need == SizeofPixel * FramePixels
       IN  /\ reads' = 0..(need - 1)
           /\ \/ \E g \in [Len(mem)..(need - 1) -> GarbageVals] :
                    /\ z' = [k \in 1..FramePixels |-> PixelZ(k - 1, g)]
                    /\ y' = [k \in 1..FramePixels |-> PixelY(k - 1, g)]
                    /\ CallbackReturns
              \/ /\ Len(mem) < need
                 /\ UNCHANGED <<z, y>>
                 /\ Crashes
    /\ UNCHANGED <<mem, yuy2, past>>

DecodeNext ==
    \/ ColorCallback
    \/ DepthCallback

SpecDecode == DecodeInit /\ [][DecodeNext]_vars

\* element k (from 0) of a frame of packed elements of three bytes: a
\* 16-bit depth, low byte first, then an 8-bit intensity
ElementDepth(m, k) == m[3 * k + 1] + 256 * m[3 * k + 2]
ElementIntensity(m, k) == m[3 * k + 3]

\* C11: when the buffer holds exactly one frame of packed elements, the
\* depth and intensity callback stores the depth of element k in z[k] and
\* its intensity in y[k], for every k.
C11_DepthIntensityDecode ==
    (pc = "requeue" /\ cur = 1 /\ buf.bytesused = 3 * FramePixels) =>
        \A k \in 0..(FramePixels - 1) :
            /\ z[k + 1] = ElementDepth(mem, k)
            /\ y[k + 1] = ElementIntensity(mem, k)

C11_Witness ==
    /\ pc = "requeue"
    /\ cur = 1
    /\ buf.bytesused = 3 * FramePixels
    /\ SubSeq(mem, 1, Len(ExampleFrame)) = ExampleFrame
    /\ z = <<100, 4000>>
    /\ y = <<10, 250>>

\* C12: after the color callback returned for a buffer of N produced bytes,
\* yuy2 holds N bytes at its start and they are the N bytes of the buffer
\* (which no step of the callback changes).
C12_ColorPassThrough ==
    (pc = "requeue" /\ cur = 0) =>
        /\ buf.bytesused <= Len(yuy2)
        /\ \A k \in 1..buf.bytesused : yuy2[k] = mem[k]

\* C17: a callback reads no byte of the buffer at an offset at or beyond
\* the count of bytes reported as produced.
C17_ReadsWithinProduced ==
    pc = "requeue" => \A off \in reads : off < buf.bytesused

\* lines 241 and 273: the width and height main stores and draws the color
\* frame with
ColorGeometry == [width |-> U32(0, 640), height |-> U32(0, 480)]

\* C18: after the forced negotiation of dev0 every later step that depends
\* on the geometry uses what the driver returned: the minimums of lines
\* 119-122 are taken from the returned width and height, and main stores and
\* draws the color frame with the returned width and height.
C18_ReturnedGeometryUsed ==
    (pc = "reqbufs" /\ force_format(cur)) =>
        /\ Geq32(fmt.bytesperline, Mul32(fmt.width, U32(0, 2)))
        /\ Geq32(fmt.sizeimage, Mul32(fmt.bytesperline, fmt.height))
        /\ ColorGeometry.width = fmt.width
        /\ ColorGeometry.height = fmt.height

\* C20: whatever count of produced bytes the device reports, up to the
\* length of the mapping, no callback stores a byte past the end of yuy2, z
\* or y.
C20_NoWritePastEnd ==
    /\ past = <<>>
    /\ Len(yuy2) = Yuy2Bytes
    /\ Len(z) = FramePixels
    /\ Len(y) = FramePixels

====
